---- MODULE Spec2Model ----
(***************************************************************************)
(* The volume service of nova: nova/volume/manager.py (VolumeManager) and  *)
(* nova/volume/driver.py (VolumeDriver, AOEDriver, ISCSIDriver).           *)
(*                                                                         *)
(* A request to the manager is a twisted inlineCallbacks coroutine.  The   *)
(* model runs a small number of such coroutines side by side.  One step of *)
(* a coroutine is one call to the datastore (a method of self.db) or one      *)
(* execution                                                               *)
(* of an external command (self._execute): the datastore is shared by the  *)
(* volume services of all hosts, so calls of different requests can        *)
(* interleave at every such call.  The datastore itself (nova.db) is not   *)
(* part of the two source files; its operations are modelled from their    *)
(* contract (atomic insert-if-absent, atomic allocate-if-free).            *)
(***************************************************************************)
EXTENDS Integers, Sequences, FiniteSets, TLC

\* ------------------------------------------------------------------ flags
\* FLAGS.num_shell_tries (driver.py:39)
num_shell_tries == 3
\* FLAGS.num_shelves (driver.py:41, default 100), scaled down
num_shelves == 1
\* FLAGS.blades_per_shelf (driver.py:44, default 16), scaled down
blades_per_shelf == 2
\* FLAGS.iscsi_target_ids (driver.py:47, default 100), scaled down
iscsi_target_ids == 2
\* FLAGS.volume_group (driver.py:35)
volume_group == "nova-volumes"

\* ------------------------------------------------------------- universe
None == "None"
\* self.host of the manager under study, and one other host
self_host == "h1"
other_host == "h2"
Hosts == {self_host, other_host}
\* the volume records in the datastore (id and name coincide)
Vols == {"vol-1", "vol-2"}
\* the k-th volume, k = 1, 2
VolSeq == <<"vol-1", "vol-2">>
\* the requests the manager receives, in the order of their arrival; each
\* is one call of a manager method and runs as one coroutine
Arrival == <<"r1", "r2">>
Tasks == {Arrival[k] : k \in 1 .. Len(Arrival)}
\* the call of init_host that the service makes when it starts
Startup == "init_host"
Procs == Tasks \cup {Startup}
Drivers == {"AOE", "ISCSI"}
Ops == {"create_volume", "delete_volume",
        "setup_compute_volume", "remove_compute_volume"}

\* identifier spaces of the two resource pools
\* xrange(num_shelves) x xrange(blades_per_shelf), driver.py:150-151
Blades == (0 .. num_shelves - 1) \X (0 .. blades_per_shelf - 1)
\* xrange(1, iscsi_target_ids + 1), driver.py:242, per host
TargetIds == 1 .. iscsi_target_ids
Targets == Hosts \X TargetIds

VARIABLES
    driver,          \* FLAGS.volume_driver: the Driver class the manager holds
    use_local_volumes, \* FLAGS.use_local_volumes
    volumes,         \* datastore: volume records
    export_devices,  \* datastore: AoE rows; <<shelf, blade>> -> volume_id of each row
    iscsi_targets,   \* datastore: iSCSI rows; <<host, target_id>> -> volume_id of each row
    lvs,             \* logical volumes present in the volume group of self_host
    op,              \* per task: the manager method it runs
    vol,             \* per task: its volume_id argument
    pc,              \* per task: "idle", the step it is at, "done" or "failed"
    volume_ref,      \* per task: the record read by volume_get
    slot,            \* per task: identifier obtained from the pool
    loop,            \* per task: position in the population loop
    tries,           \* per task: the counter of _try_execute
    backoff,         \* per task: TRUE while at the sleep of _try_execute
    attempts,        \* per task: executions made by the _try_execute call that
                     \*   is running, has just returned or has raised
    log,             \* per task: finished driver commands <<name, exit code>>
    err,             \* per task: exception that ended the request
    ret,             \* per task: value returned by the request
    host_volumes,    \* init_host: the records volume_get_all_by_host returned
    ensured,         \* init_host: the volumes ensure_export was invoked for
    lv_size          \* the -L argument each logical volume was created with

vars == <<driver, use_local_volumes, volumes, export_devices, iscsi_targets,
          lvs, op, vol, pc, volume_ref, slot, loop, tries, backoff,
          attempts, log, err, ret, host_volumes, ensured, lv_size>>

\* ---------------------------------------------------------------- helpers
RECURSIVE SeqIndex(_, _, _)
\* position of x in sequence s at or after i, 0 when absent
SeqIndex(s, x, i) ==
    IF i > Len(s) THEN 0
    ELSE IF s[i] = x THEN i
    ELSE SeqIndex(s, x, i + 1)

RECURSIVE SumOver(_, _)
\* sum of f over the finite set S
SumOver(f, S) ==
    IF S = {} THEN 0
    ELSE LET x == CHOOSE y \in S : TRUE
         IN  f[x] + SumOver(f, S \ {x})

\* the names of a step list
Names(steps) == [i \in 1 .. Len(steps) |-> steps[i][1]]

\* ------------------------------------------------- step lists of the code
\* A step is <<name, how>>; how says how the code runs it:
\*   "db"      a call to the datastore
\*   "try"     a command run through self._try_execute
\*   "exec"    a command run through self._execute, exit code checked
\*   "nocheck" a command run through self._execute(check_exit_code=False)
\*   "sleep"   the command "sleep n" run through self._execute

\* VolumeDriver.create_volume
driver_create_volume == << <<"lvcreate", "try">> >>

\* VolumeDriver.delete_volume
driver_delete_volume == << <<"lvremove", "try">> >>

\* AOE_create_export as it would be if the exit codes of the two activate
\* commands were checked
AOE_create_export_checked ==
    << <<"export_device_count", "db">>,
       <<"export_device_create_safe", "db">>,
       <<"volume_allocate_shelf_and_blade", "db">>,
       <<"vblade_setup", "try">>,
       <<"sleep_2", "sleep">>,
       <<"vblade_auto", "exec">>,
       <<"vblade_start", "exec">> >>

\* AOEDriver.create_export, with _ensure_blades inlined
AOE_create_export ==
    << <<"export_device_count", "db">>,
       <<"export_device_create_safe", "db">>,
       <<"volume_allocate_shelf_and_blade", "db">>,
       <<"vblade_setup", "try">>,
       <<"sleep_2", "sleep">>,
       <<"vblade_auto", "nocheck">>,
       <<"vblade_start", "nocheck">> >>

\* AOEDriver.remove_export
AOE_remove_export ==
    << <<"volume_get_shelf_and_blade", "db">>,
       <<"vblade_stop", "try">>,
       <<"vblade_destroy", "try">> >>

\* AOEDriver.discover_volume
AOE_discover_volume ==
    << <<"aoe_discover", "exec">>,
       <<"aoe_stat", "nocheck">> >>

\* AOEDriver.undiscover_volume: a bare yield, no command
AOE_undiscover_volume == << >>

\* ISCSI_create_export as it would be if its two commands were run through
\* self._try_execute
ISCSI_create_export_retrying ==
    << <<"target_id_count_by_host", "db">>,
       <<"target_id_create_safe", "db">>,
       <<"volume_allocate_target_id", "db">>,
       <<"ietadm_new_target", "try">>,
       <<"ietadm_new_lun", "try">> >>

\* ISCSIDriver.create_export, with _ensure_target_ids inlined
ISCSI_create_export ==
    << <<"target_id_count_by_host", "db">>,
       <<"target_id_create_safe", "db">>,
       <<"volume_allocate_target_id", "db">>,
       <<"ietadm_new_target", "exec">>,
       <<"ietadm_new_lun", "exec">> >>

\* ISCSIDriver.remove_export
ISCSI_remove_export ==
    << <<"volume_get_target_id", "db">>,
       <<"ietadm_delete_lun", "exec">>,
       <<"ietadm_delete_target", "exec">> >>

\* ISCSIDriver.discover_volume, with _get_name_and_portal inlined
ISCSI_discover_volume ==
    << <<"iscsiadm_discovery", "discovery">>,
       <<"iscsiadm_login", "exec">>,
       <<"iscsiadm_update_automatic", "exec">> >>

\* ISCSIDriver.undiscover_volume, with _get_name_and_portal inlined
ISCSI_undiscover_volume ==
    << <<"iscsiadm_discovery", "discovery">>,
       <<"iscsiadm_update_manual", "exec">>,
       <<"iscsiadm_logout", "exec">>,
       <<"iscsiadm_delete", "exec">> >>

create_export(d) == IF d = "AOE" THEN AOE_create_export ELSE ISCSI_create_export
remove_export(d) == IF d = "AOE" THEN AOE_remove_export ELSE ISCSI_remove_export
discover_volume(d) ==
    IF d = "AOE" THEN AOE_discover_volume ELSE ISCSI_discover_volume
undiscover_volume(d) ==
    IF d = "AOE" THEN AOE_undiscover_volume ELSE ISCSI_undiscover_volume

\* create_volume as it would be if the status were persisted before the
\* export is created
create_volume_status_early(d) ==
    << <<"volume_get", "db">>, <<"volume_update_host", "db">> >>
    \o driver_create_volume
    \o << <<"volume_update_status", "db">> >>
    \o create_export(d)

\* VolumeManager.create_volume
create_volume(d) ==
    << <<"volume_get", "db">>, <<"volume_update_host", "db">> >>
    \o driver_create_volume
    \o create_export(d)
    \o << <<"volume_update_status", "db">> >>

\* delete_volume as it would be if the record were destroyed before the
\* backing volume is deleted
delete_volume_destroy_early(d) ==
    << <<"volume_get", "db">> >>
    \o remove_export(d)
    \o << <<"volume_destroy", "db">> >>
    \o driver_delete_volume

\* VolumeManager.delete_volume
delete_volume(d) ==
    << <<"volume_get", "db">> >>
    \o remove_export(d)
    \o driver_delete_volume
    \o << <<"volume_destroy", "db">> >>

\* VolumeManager.setup_compute_volume, the branch that is not the shortcut
setup_compute_volume(d) == << <<"volume_get", "db">> >> \o discover_volume(d)

\* VolumeManager.remove_compute_volume, the branch that is not the shortcut
remove_compute_volume(d) == << <<"volume_get", "db">> >> \o undiscover_volume(d)

Steps(o, d) ==
    CASE o = "create_volume" -> create_volume(d)
      [] o = "delete_volume" -> delete_volume(d)
      [] o = "setup_compute_volume" -> setup_compute_volume(d)
      [] o = "remove_compute_volume" -> remove_compute_volume(d)

\* how the step named l of method o is run
How(o, d, l) == Steps(o, d)[SeqIndex(Names(Steps(o, d)), l, 1)][2]

\* the step after the one named l, "done" after the last
After(o, d, l) ==
    LET s == Steps(o, d)
        i == SeqIndex(Names(s), l, 1)
    IN  IF i = Len(s) THEN "done" ELSE s[i + 1][1]

\* ------------------------------------------------------------ datastore
\* The rows of a pool table are kept per identifier: table[id] is the
\* sequence of the volume_id columns of the rows that carry this identifier
\* (<<>>: no row, <<None>>: one unassigned row).

\* the identifiers a volume owns in a table
OwnedBy(table, v) ==
    {id \in DOMAIN table : \E i \in 1 .. Len(table[id]) : table[id][i] = v}

\* the volumes that own an identifier
OwnersOf(table, id) ==
    {table[id][i] : i \in 1 .. Len(table[id])} \ {None}

\* db.export_device_count
export_device_count(table) ==
    SumOver([id \in Blades |-> Len(table[id])], Blades)

\* db.target_id_count_by_host
target_id_count_by_host(table, host) ==
    SumOver([id \in {host} \X TargetIds |-> Len(table[id])],
            {host} \X TargetIds)

\* db.export_device_create_safe and db.target_id_create_safe:
\* insert the row unless a row with this identifier exists
create_safe(table, id) ==
    IF Len(table[id]) > 0 THEN table
    ELSE [table EXCEPT ![id] = <<None>>]

\* the identifiers of scope that have an unassigned row
Unassigned(table, scope) ==
    {id \in scope : \E i \in 1 .. Len(table[id]) : table[id][i] = None}

\* db.volume_allocate_shelf_and_blade and db.volume_allocate_target_id:
\* mark one unassigned row of identifier id as owned by v
allocate(table, id, v) ==
    LET i == CHOOSE j \in 1 .. Len(table[id]) : table[id][j] = None
    IN  [table EXCEPT ![id][i] = v]

\* db.volume_update
volume_update(vs, v, field, value) == [vs EXCEPT ![v][field] = value]

\* db.volume_destroy: the record is marked deleted; no pool row is touched
volume_destroy(vs, v) == [vs EXCEPT ![v].deleted = TRUE]

\* db.volume_get_all_by_host: the records of the host, in the order of
\* their ids
volume_get_all_by_host(vs, host) ==
    SelectSeq(VolSeq, LAMBDA v : vs[v].host = host /\ ~vs[v].deleted)

\* ----------------------------------------------------------- formatting
RECURSIVE str(_)
\* "%s" % n for an integer n >= 0: its decimal digits
str(n) == IF n < 10 THEN <<n>> ELSE Append(str(n \div 10), n % 10)

\* sizestr as it would be without the special case of size 0
sizestr_gigabytes_only(size) == [digits |-> str(size), unit |-> "G"]

\* VolumeDriver.create_volume, driver.py:92-95: the -L argument of lvcreate,
\* as the digits of its number and its unit
sizestr(size) ==
    IF size = 0 THEN [digits |-> <<1, 0, 0>>, unit |-> "M"]
    ELSE [digits |-> str(size), unit |-> "G"]

\* no logical volume
NoSize == [digits |-> << >>, unit |-> None]

\* "/dev/%s/%s" % (FLAGS.volume_group, volume['name'])
local_path(v) == <<"/dev", volume_group, v>>

\* "/dev/iscsi/%s" % volume['name']
iscsi_path(v) == <<"/dev", "iscsi", v>>

\* ---------------------------------------------------------- initial state
\* The identifiers of a pool in the order the population loop makes them.
BladeSeq == [k \in 1 .. num_shelves * blades_per_shelf |->
               <<(k - 1) \div blades_per_shelf, (k - 1) % blades_per_shelf>>]
TargetSeq(host) == [k \in 1 .. iscsi_target_ids |-> <<host, k>>]

\* A volume record as the callers of the manager leave it:
\*   "new"       just created by the API, to be passed to create_volume
\*   "remote"    created earlier by the manager of the other host
\*   "attached"  created earlier here, now attached to an instance
\*   "deleting"  created earlier here, marked by the API for delete_volume
Profiles == {"new", "remote", "attached", "deleting"}

\* the records the model starts from
InitialProfiles ==
    {prof \in [Vols -> Profiles] :
       /\ prof["vol-1"] \in {"new", "deleting"}
       /\ prof["vol-2"] \in {"new", "remote", "attached"}}

InitialVolume(profile) ==
    CASE profile = "new" ->
           [host |-> None, status |-> "creating", launched_at |-> None,
            attach_status |-> "detached", deleted |-> FALSE]
      [] profile = "remote" ->
           [host |-> other_host, status |-> "available", launched_at |-> "earlier",
            attach_status |-> "detached", deleted |-> FALSE]
      [] profile = "attached" ->
           [host |-> self_host, status |-> "available", launched_at |-> "earlier",
            attach_status |-> "attached", deleted |-> FALSE]
      [] profile = "deleting" ->
           [host |-> self_host, status |-> "deleting", launched_at |-> "earlier",
            attach_status |-> "detached", deleted |-> FALSE]

\* FLAGS.use_local_volumes is True by default; it is switched off in the
\* start with a local and a remote volume
InitialFlags(prof) ==
    IF prof["vol-1"] = "deleting" /\ prof["vol-2"] = "remote"
    THEN {TRUE, FALSE} ELSE {TRUE}

\* volume_ref before volume_get has run
NoRef == [host |-> None, status |-> None, launched_at |-> None,
          attach_status |-> None, deleted |-> FALSE, size |-> 0]

\* volume['size'] of the records, in gigabytes
InitialSizes == ("vol-1" :> 0) @@ ("vol-2" :> 5)

\* rows a population pass that was cut short has left behind, at most
InitiallyFilled == 1

\* A pool as earlier runs leave it: a volume created earlier owns the
\* identifier of its rank, and then every row of its scope exists, since
\* an allocation follows a full population pass; a scope nobody allocated
\* from holds the first `filled` rows of the population loop.
InitialBlades(prof, filled) ==
    LET used == \E v \in Vols : prof[v] # "new"
    IN  [id \in Blades |->
           LET k == SeqIndex(BladeSeq, id, 1)
           IN  IF k <= Len(VolSeq) /\ prof[VolSeq[k]] # "new"
               THEN <<VolSeq[k]>>
               ELSE IF used \/ k <= filled THEN <<None>> ELSE << >>]

InitialTargets(prof, filled) ==
    [id \in Targets |->
       LET host == id[1]
           k == id[2]
           used == \E v \in Vols :
                      prof[v] # "new" /\ InitialVolume(prof[v]).host = host
       IN  IF /\ k <= Len(VolSeq)
              /\ prof[VolSeq[k]] # "new"
              /\ InitialVolume(prof[VolSeq[k]]).host = host
           THEN <<VolSeq[k]>>
           ELSE IF used \/ (host = self_host /\ k <= filled)
                THEN <<None>> ELSE << >>]

\* the state in which the service starts, the records having the sizes given
Start(sizes) ==
    /\ driver \in Drivers
    /\ \E prof \in InitialProfiles :
         /\ use_local_volumes \in InitialFlags(prof)
         /\ volumes = [v \in Vols |->
                         InitialVolume(prof[v]) @@ [size |-> sizes[v]]]
         /\ lvs = {v \in Vols : InitialVolume(prof[v]).host = self_host}
         /\ lv_size = [v \in Vols |->
                         IF InitialVolume(prof[v]).host = self_host
                         THEN sizestr(sizes[v]) ELSE NoSize]
         /\ \E filled \in 0 .. InitiallyFilled :
              /\ export_devices =
                   IF driver = "AOE" THEN InitialBlades(prof, filled)
                   ELSE [id \in Blades |-> << >>]
              /\ iscsi_targets =
                   IF driver = "ISCSI" THEN InitialTargets(prof, filled)
                   ELSE [id \in Targets |-> << >>]
    /\ op = [t \in Procs |-> IF t = Startup THEN "init_host" ELSE None]
    /\ vol = [t \in Procs |-> None]
    /\ pc = [t \in Procs |->
               IF t = Startup THEN "check_for_setup_error" ELSE "idle"]
    /\ volume_ref = [t \in Procs |-> NoRef]
    /\ slot = [t \in Procs |-> << >>]
    /\ loop = [t \in Procs |-> 0]
    /\ tries = [t \in Procs |-> 0]
    /\ backoff = [t \in Procs |-> FALSE]
    /\ attempts = [t \in Procs |-> << >>]
    /\ log = [t \in Procs |-> << >>]
    /\ err = [t \in Procs |-> None]
    /\ ret = [t \in Procs |-> << >>]
    /\ host_volumes = << >>
    /\ ensured = << >>

Init == Start(InitialSizes)

\* -------------------------------------------------------------- control
Raise(t, e) ==
    /\ pc' = [pc EXCEPT ![t] = "failed"]
    /\ err' = [err EXCEPT ![t] = e]
    /\ UNCHANGED ret

\* what the manager method returns when its last step has run
ReturnValue(o, d, v) ==
    CASE o = "create_volume" -> <<v>>
      [] o = "delete_volume" -> <<"True">>
      [] o = "setup_compute_volume" ->
           IF d = "ISCSI" THEN iscsi_path(v) ELSE <<"None">>
      [] o = "remove_compute_volume" -> <<"None">>

Return(t, value) ==
    /\ pc' = [pc EXCEPT ![t] = "done"]
    /\ ret' = [ret EXCEPT ![t] = value]
    /\ UNCHANGED err

Goto(t, l) ==
    IF l = "done" THEN Return(t, ReturnValue(op[t], driver, vol[t]))
    ELSE /\ pc' = [pc EXCEPT ![t] = l]
         /\ UNCHANGED <<err, ret>>

\* go on with the step after the current one
Advance(t) == Goto(t, After(op[t], driver, pc[t]))

Running(t, o, l) == op[t] = o /\ pc[t] = l

\* the coroutine goes on past the _try_execute call that returned
Forget(t) == attempts' = [attempts EXCEPT ![t] = << >>]

\* A request arrives: the rpc layer calls a manager method with a volume id.
\* The service consumes requests once init_host has returned.
Call(t, o, v) ==
    /\ pc[t] = "idle"
    /\ pc[Startup] = "done"
    /\ \A k \in 1 .. Len(Arrival) :
         Arrival[k] = t => \A j \in 1 .. k - 1 : pc[Arrival[j]] # "idle"
    /\ op' = [op EXCEPT ![t] = o]
    /\ vol' = [vol EXCEPT ![t] = v]
    /\ pc' = [pc EXCEPT ![t] = "volume_get"]
    /\ volume_ref' = [volume_ref EXCEPT ![t] = NoRef]
    /\ slot' = [slot EXCEPT ![t] = << >>]
    /\ loop' = [loop EXCEPT ![t] = 0]
    /\ tries' = [tries EXCEPT ![t] = 0]
    /\ backoff' = [backoff EXCEPT ![t] = FALSE]
    /\ attempts' = [attempts EXCEPT ![t] = << >>]
    /\ log' = [log EXCEPT ![t] = << >>]
    /\ err' = [err EXCEPT ![t] = None]
    /\ ret' = [ret EXCEPT ![t] = << >>]
    /\ UNCHANGED <<driver, use_local_volumes, host_volumes, ensured,
                   lv_size, volumes, export_devices,
                   iscsi_targets, lvs>>

\* ---------------------------------------------------------- VolumeManager
\* create_volume, manager.py:71-73: volume_get
create_volume_begin(t) ==
    /\ Running(t, "create_volume", "volume_get")
    /\ IF volumes[vol[t]].deleted
       THEN Raise(t, "NotFound") /\ UNCHANGED volume_ref
       ELSE /\ volume_ref' = [volume_ref EXCEPT ![t] = volumes[vol[t]]]
            /\ Advance(t)
    /\ Forget(t)
    /\ UNCHANGED <<driver, use_local_volumes, host_volumes, ensured,
                   lv_size, volumes, export_devices,
                   iscsi_targets, lvs, op, vol, slot, loop, tries, backoff, log>>

\* create_volume, manager.py:75-80: persist the host, then set it in the ref
create_volume_set_host(t) ==
    /\ Running(t, "create_volume", "volume_update_host")
    /\ IF volumes[vol[t]].deleted
       THEN Raise(t, "NotFound") /\ UNCHANGED <<volumes, volume_ref>>
       ELSE /\ volumes' = volume_update(volumes, vol[t], "host", self_host)
            /\ volume_ref' = [volume_ref EXCEPT ![t].host = self_host]
            /\ Advance(t)
    /\ Forget(t)
    /\ UNCHANGED <<driver, use_local_volumes, host_volumes, ensured,
                   lv_size, export_devices,
                   iscsi_targets, lvs, op, vol, slot, loop, tries, backoff, log>>

\* create_volume, manager.py:89-94: status available, launched_at, return
create_volume_finish(t) ==
    /\ Running(t, "create_volume", "volume_update_status")
    /\ IF volumes[vol[t]].deleted
       THEN Raise(t, "NotFound") /\ UNCHANGED volumes
       ELSE /\ volumes' = volume_update(
                             volume_update(volumes, vol[t], "status", "available"),
                             vol[t], "launched_at", "now")
            /\ Advance(t)
    /\ Forget(t)
    /\ UNCHANGED <<driver, use_local_volumes, host_volumes, ensured,
                   lv_size, export_devices,
                   iscsi_targets, lvs, op, vol, volume_ref, slot, loop, tries,
                   backoff, log>>

\* delete_volume_begin as it would be without the test of attach_status
delete_volume_begin_no_attach_test(t) ==
    /\ Running(t, "delete_volume", "volume_get")
    /\ IF volumes[vol[t]].deleted
       THEN Raise(t, "NotFound") /\ UNCHANGED volume_ref
       ELSE /\ volume_ref' = [volume_ref EXCEPT ![t] = volumes[vol[t]]]
            /\ IF volumes[vol[t]].host # self_host
               THEN Raise(t, "Volume is not local to this node")
               ELSE Advance(t)
    /\ Forget(t)
    /\ UNCHANGED <<driver, use_local_volumes, host_volumes, ensured,
                   lv_size, volumes, export_devices,
                   iscsi_targets, lvs, op, vol, slot, loop, tries, backoff,
                   log>>

\* delete_volume, manager.py:99-104: volume_get and the two checks
delete_volume_begin(t) ==
    /\ Running(t, "delete_volume", "volume_get")
    /\ IF volumes[vol[t]].deleted
       THEN Raise(t, "NotFound") /\ UNCHANGED volume_ref
       ELSE /\ volume_ref' = [volume_ref EXCEPT ![t] = volumes[vol[t]]]
            /\ IF volumes[vol[t]].attach_status = "attached"
               THEN Raise(t, "Volume is still attached")
               ELSE IF volumes[vol[t]].host # self_host
               THEN Raise(t, "Volume is not local to this node")
               ELSE Advance(t)
    /\ Forget(t)
    /\ UNCHANGED <<driver, use_local_volumes, host_volumes, ensured,
                   lv_size, volumes, export_devices,
                   iscsi_targets, lvs, op, vol, slot, loop, tries, backoff, log>>

\* a pool table with every row of volume v made unassigned again
released(table, v) ==
    [id \in DOMAIN table |->
       [i \in 1 .. Len(table[id]) |->
          IF table[id][i] = v THEN None ELSE table[id][i]]]

\* delete_volume_finish as it would be if the slots of the volume were
\* given back to their pools
delete_volume_finish_releasing(t) ==
    /\ Running(t, "delete_volume", "volume_destroy")
    /\ volumes' = volume_destroy(volumes, vol[t])
    /\ export_devices' = released(export_devices, vol[t])
    /\ iscsi_targets' = released(iscsi_targets, vol[t])
    /\ Advance(t)
    /\ Forget(t)
    /\ UNCHANGED <<driver, use_local_volumes, host_volumes, ensured,
                   lv_size, lvs, op, vol, volume_ref, slot, loop, tries,
                   backoff, log>>

\* delete_volume, manager.py:109-111: volume_destroy, return True
delete_volume_finish(t) ==
    /\ Running(t, "delete_volume", "volume_destroy")
    /\ volumes' = volume_destroy(volumes, vol[t])
    /\ Advance(t)
    /\ Forget(t)
    /\ UNCHANGED <<driver, use_local_volumes, host_volumes, ensured,
                   lv_size, export_devices,
                   iscsi_targets, lvs, op, vol, volume_ref, slot, loop, tries,
                   backoff, log>>

\* is_local as it would be if the flag were not consulted
is_local_whatever_flag(ref, flag) == ref.host = self_host

\* the test of manager.py:121 and manager.py:132
is_local(ref, flag) == ref.host = self_host /\ flag

\* setup_compute_volume, manager.py:119-125
setup_compute_volume_begin(t) ==
    /\ Running(t, "setup_compute_volume", "volume_get")
    /\ IF volumes[vol[t]].deleted
       THEN Raise(t, "NotFound") /\ UNCHANGED volume_ref
       ELSE /\ volume_ref' = [volume_ref EXCEPT ![t] = volumes[vol[t]]]
            /\ IF is_local(volumes[vol[t]], use_local_volumes)
               THEN Return(t, local_path(vol[t]))
               ELSE Advance(t)
    /\ Forget(t)
    /\ UNCHANGED <<driver, use_local_volumes, host_volumes, ensured,
                   lv_size, volumes, export_devices,
                   iscsi_targets, lvs, op, vol, slot, loop, tries, backoff, log>>

\* remove_compute_volume, manager.py:130-135
remove_compute_volume_begin(t) ==
    /\ Running(t, "remove_compute_volume", "volume_get")
    /\ IF volumes[vol[t]].deleted
       THEN Raise(t, "NotFound") /\ UNCHANGED volume_ref
       ELSE /\ volume_ref' = [volume_ref EXCEPT ![t] = volumes[vol[t]]]
            /\ IF is_local(volumes[vol[t]], use_local_volumes)
               THEN Return(t, <<"True">>)
               ELSE Advance(t)
    /\ Forget(t)
    /\ UNCHANGED <<driver, use_local_volumes, host_volumes, ensured,
                   lv_size, volumes, export_devices,
                   iscsi_targets, lvs, op, vol, slot, loop, tries, backoff, log>>

\* init_host, manager.py:61: driver.check_for_setup_error, driver.py:83-87;
\* whether /dev/<volume_group> is a directory is for the host to say
check_for_setup_error ==
    /\ pc[Startup] = "check_for_setup_error"
    /\ \E isdir \in BOOLEAN :
         IF isdir
         THEN /\ pc' = [pc EXCEPT ![Startup] = "volume_get_all_by_host"]
              /\ UNCHANGED <<err, ret>>
         ELSE Raise(Startup, "volume group doesn't exist")
    /\ UNCHANGED <<driver, use_local_volumes, volumes, export_devices,
                   iscsi_targets, lvs, lv_size, op, volume_ref, tries,
                   backoff, attempts, vol, slot, loop, log, host_volumes, ensured>>

\* the loop of init_host, manager.py:65: on to the volume after the k-th,
\* or out of the loop
next_volume(k, loaded) ==
    IF k >= Len(loaded)
    THEN /\ pc' = [pc EXCEPT ![Startup] = "return"]
         /\ UNCHANGED loop
    ELSE /\ pc' = [pc EXCEPT ![Startup] = "ensure_export"]
         /\ loop' = [loop EXCEPT ![Startup] = k + 1]

\* init_host_load as it would be if the records of every host were loaded
init_host_load_every_host ==
    /\ pc[Startup] = "volume_get_all_by_host"
    /\ host_volumes' = SelectSeq(VolSeq, LAMBDA v : volumes[v].host # None)
    /\ next_volume(0, host_volumes')
    /\ UNCHANGED <<err, ret>>
    /\ UNCHANGED <<driver, use_local_volumes, volumes, export_devices,
                   iscsi_targets, lvs, lv_size, op, volume_ref, tries,
                   backoff, attempts, vol, slot, log, ensured>>

\* init_host, manager.py:63: volume_get_all_by_host(ctxt, self.host)
init_host_load ==
    /\ pc[Startup] = "volume_get_all_by_host"
    /\ host_volumes' = volume_get_all_by_host(volumes, self_host)
    /\ next_volume(0, host_volumes')
    /\ UNCHANGED <<err, ret>>
    /\ UNCHANGED <<driver, use_local_volumes, volumes, export_devices,
                   iscsi_targets, lvs, lv_size, op, volume_ref, tries,
                   backoff, attempts, vol, slot, log, ensured>>

\* init_host, manager.py:65-66: the loop is over and init_host returns
init_host_return ==
    /\ pc[Startup] = "return"
    /\ pc' = [pc EXCEPT ![Startup] = "done"]
    /\ log' = [log EXCEPT ![Startup] = << >>]
    /\ UNCHANGED <<err, ret>>
    /\ UNCHANGED <<driver, use_local_volumes, volumes, export_devices,
                   iscsi_targets, lvs, lv_size, op, volume_ref, tries,
                   backoff, attempts, vol, slot, loop, host_volumes, ensured>>

\* -------------------------------------------------------------- AOEDriver
\* ensure_export, driver.py:141-143, called at manager.py:66: pass
AOE_ensure_export ==
    /\ driver = "AOE"
    /\ pc[Startup] = "ensure_export"
    /\ vol' = [vol EXCEPT ![Startup] = host_volumes[loop[Startup]]]
    /\ ensured' = Append(ensured, host_volumes[loop[Startup]])
    /\ next_volume(loop[Startup], host_volumes)
    /\ UNCHANGED <<err, ret>>
    /\ UNCHANGED <<driver, use_local_volumes, volumes, export_devices,
                   iscsi_targets, lvs, lv_size, op, volume_ref, tries,
                   backoff, attempts, slot, log, host_volumes>>

\* _ensure_blades, driver.py:147-149: the count check
AOE_ensure_blades_check(t) ==
    /\ pc[t] = "export_device_count"
    /\ IF export_device_count(export_devices)
            >= num_shelves * blades_per_shelf
       THEN Goto(t, After(op[t], driver, "export_device_create_safe"))
            /\ UNCHANGED loop
       ELSE Advance(t) /\ loop' = [loop EXCEPT ![t] = 1]
    /\ Forget(t)
    /\ UNCHANGED <<driver, use_local_volumes, host_volumes, ensured,
                   lv_size, volumes, export_devices,
                   iscsi_targets, lvs, op, vol, volume_ref, slot, tries,
                   backoff, log>>

\* AOE_ensure_blades_create as it would be if the loops stopped one
\* identifier short of the grid
AOE_ensure_blades_create_short(t) ==
    /\ pc[t] = "export_device_create_safe"
    /\ IF loop[t] >= Len(BladeSeq)
       THEN Advance(t) /\ loop' = [loop EXCEPT ![t] = 0]
            /\ UNCHANGED export_devices
       ELSE /\ export_devices' = create_safe(export_devices, BladeSeq[loop[t]])
            /\ loop' = [loop EXCEPT ![t] = loop[t] + 1]
            /\ UNCHANGED <<pc, err, ret>>
    /\ Forget(t)
    /\ UNCHANGED <<driver, use_local_volumes, host_volumes, ensured,
                   lv_size, volumes, iscsi_targets, lvs,
                   op, vol, volume_ref, slot, tries, backoff, log>>

\* _ensure_blades, driver.py:150-153: one pass of the two nested loops
AOE_ensure_blades_create(t) ==
    /\ pc[t] = "export_device_create_safe"
    /\ export_devices' = create_safe(export_devices, BladeSeq[loop[t]])
    /\ IF loop[t] = Len(BladeSeq)
       THEN Advance(t) /\ loop' = [loop EXCEPT ![t] = 0]
       ELSE /\ loop' = [loop EXCEPT ![t] = loop[t] + 1]
            /\ UNCHANGED <<pc, err, ret>>
    /\ Forget(t)
    /\ UNCHANGED <<driver, use_local_volumes, host_volumes, ensured,
                   lv_size, volumes, iscsi_targets, lvs,
                   op, vol, volume_ref, slot, tries, backoff, log>>

\* AOE_allocate as it would be if the row were picked without regard to
\* the volume that holds it
AOE_allocate_any_row(t) ==
    /\ pc[t] = "volume_allocate_shelf_and_blade"
    /\ \E id \in {b \in Blades : Len(export_devices[b]) > 0} :
         /\ export_devices' = [export_devices EXCEPT ![id][1] = vol[t]]
         /\ slot' = [slot EXCEPT ![t] = id]
         /\ Advance(t)
    /\ Forget(t)
    /\ UNCHANGED <<driver, use_local_volumes, host_volumes, ensured,
                   lv_size, volumes, iscsi_targets, lvs,
                   op, vol, volume_ref, loop, tries, backoff, log>>

\* create_export, driver.py:159-161: volume_allocate_shelf_and_blade
AOE_allocate(t) ==
    /\ pc[t] = "volume_allocate_shelf_and_blade"
    /\ IF Unassigned(export_devices, Blades) = {}
       THEN Raise(t, "NoMoreBlades") /\ UNCHANGED <<export_devices, slot>>
       ELSE \E id \in Unassigned(export_devices, Blades) :
              /\ export_devices' = allocate(export_devices, id, vol[t])
              /\ slot' = [slot EXCEPT ![t] = id]
              /\ Advance(t)
    /\ Forget(t)
    /\ UNCHANGED <<driver, use_local_volumes, host_volumes, ensured,
                   lv_size, volumes, iscsi_targets, lvs,
                   op, vol, volume_ref, loop, tries, backoff, log>>

\* remove_export, driver.py:185-187: volume_get_shelf_and_blade
AOE_lookup(t) ==
    /\ pc[t] = "volume_get_shelf_and_blade"
    /\ IF OwnedBy(export_devices, vol[t]) = {}
       THEN Raise(t, "NotFound") /\ UNCHANGED slot
       ELSE \E id \in OwnedBy(export_devices, vol[t]) :
              /\ slot' = [slot EXCEPT ![t] = id]
              /\ Advance(t)
    /\ Forget(t)
    /\ UNCHANGED <<driver, use_local_volumes, host_volumes, ensured,
                   lv_size, volumes, export_devices,
                   iscsi_targets, lvs, op, vol, volume_ref, loop, tries,
                   backoff, log>>

\* ------------------------------------------------------------ ISCSIDriver
\* ISCSI_ensure_target_ids_check as it would be if any row of the host
\* were taken for a populated pool
ISCSI_ensure_target_ids_check_any_row(t) ==
    /\ pc[t] = "target_id_count_by_host"
    /\ IF target_id_count_by_host(iscsi_targets, volume_ref[t].host) >= 1
       THEN Goto(t, After(op[t], driver, "target_id_create_safe"))
            /\ UNCHANGED loop
       ELSE Advance(t) /\ loop' = [loop EXCEPT ![t] = 1]
    /\ Forget(t)
    /\ UNCHANGED <<driver, use_local_volumes, host_volumes, ensured,
                   lv_size, volumes, export_devices,
                   iscsi_targets, lvs, op, vol, volume_ref, slot, tries,
                   backoff, log>>

\* _ensure_target_ids, driver.py:238-240: the count check for the host
ISCSI_ensure_target_ids_check(t) ==
    /\ pc[t] = "target_id_count_by_host"
    /\ IF target_id_count_by_host(iscsi_targets, volume_ref[t].host)
            >= iscsi_target_ids
       THEN Goto(t, After(op[t], driver, "target_id_create_safe"))
            /\ UNCHANGED loop
       ELSE Advance(t) /\ loop' = [loop EXCEPT ![t] = 1]
    /\ Forget(t)
    /\ UNCHANGED <<driver, use_local_volumes, host_volumes, ensured,
                   lv_size, volumes, export_devices,
                   iscsi_targets, lvs, op, vol, volume_ref, slot, tries,
                   backoff, log>>

\* _ensure_target_ids, driver.py:242-244: one pass of the loop
ISCSI_ensure_target_ids_create(t) ==
    /\ pc[t] = "target_id_create_safe"
    /\ iscsi_targets' =
         create_safe(iscsi_targets, TargetSeq(volume_ref[t].host)[loop[t]])
    /\ IF loop[t] = iscsi_target_ids
       THEN Advance(t) /\ loop' = [loop EXCEPT ![t] = 0]
       ELSE /\ loop' = [loop EXCEPT ![t] = loop[t] + 1]
            /\ UNCHANGED <<pc, err, ret>>
    /\ Forget(t)
    /\ UNCHANGED <<driver, use_local_volumes, host_volumes, ensured,
                   lv_size, volumes, export_devices, lvs,
                   op, vol, volume_ref, slot, tries, backoff, log>>

\* create_export, driver.py:250-252: volume_allocate_target_id
ISCSI_allocate(t) ==
    /\ pc[t] = "volume_allocate_target_id"
    /\ LET scope == {volume_ref[t].host} \X TargetIds
       IN  IF Unassigned(iscsi_targets, scope) = {}
           THEN Raise(t, "NoMoreTargets") /\ UNCHANGED <<iscsi_targets, slot>>
           ELSE \E id \in Unassigned(iscsi_targets, scope) :
                  /\ iscsi_targets' = allocate(iscsi_targets, id, vol[t])
                  /\ slot' = [slot EXCEPT ![t] = id]
                  /\ Advance(t)
    /\ Forget(t)
    /\ UNCHANGED <<driver, use_local_volumes, host_volumes, ensured,
                   lv_size, volumes, export_devices, lvs,
                   op, vol, volume_ref, loop, tries, backoff, log>>

\* remove_export, driver.py:265: volume_get_target_id
ISCSI_lookup(t) ==
    /\ pc[t] = "volume_get_target_id"
    /\ IF OwnedBy(iscsi_targets, vol[t]) = {}
       THEN Raise(t, "NotFound") /\ UNCHANGED slot
       ELSE \E id \in OwnedBy(iscsi_targets, vol[t]) :
              /\ slot' = [slot EXCEPT ![t] = id]
              /\ Advance(t)
    /\ Forget(t)
    /\ UNCHANGED <<driver, use_local_volumes, host_volumes, ensured,
                   lv_size, volumes, export_devices,
                   iscsi_targets, lvs, op, vol, volume_ref, loop, tries,
                   backoff, log>>

\* ensure_export, driver.py:222-224, called at manager.py:66:
\* volume_get_target_id
ISCSI_ensure_export ==
    /\ driver = "ISCSI"
    /\ pc[Startup] = "ensure_export"
    /\ vol' = [vol EXCEPT ![Startup] = host_volumes[loop[Startup]]]
    /\ ensured' = Append(ensured, host_volumes[loop[Startup]])
    /\ LET v == host_volumes[loop[Startup]]
       IN  IF OwnedBy(iscsi_targets, v) = {}
           THEN Raise(Startup, "NotFound") /\ UNCHANGED slot
           ELSE \E id \in OwnedBy(iscsi_targets, v) :
                  /\ slot' = [slot EXCEPT ![Startup] = id]
                  /\ pc' = [pc EXCEPT ![Startup] = "ietadm_new_target"]
                  /\ UNCHANGED <<err, ret>>
    /\ UNCHANGED <<driver, use_local_volumes, volumes, export_devices,
                   iscsi_targets, lvs, lv_size, op, volume_ref, tries,
                   backoff, attempts, loop, log, host_volumes>>

\* sync_exec_unchecked as it would be if the exit code were checked
sync_exec_checked ==
    /\ pc[Startup] \in {"ietadm_new_target", "ietadm_new_lun"}
    /\ \E rc \in {0, 1} :
         /\ log' = [log EXCEPT ![Startup] = @ \o << <<pc[Startup], rc>> >>]
         /\ IF rc # 0
            THEN Raise(Startup, "ProcessExecutionError") /\ UNCHANGED loop
            ELSE /\ IF pc[Startup] = "ietadm_new_target"
                    THEN /\ pc' = [pc EXCEPT ![Startup] = "ietadm_new_lun"]
                         /\ UNCHANGED loop
                    ELSE next_volume(loop[Startup], host_volumes)
                 /\ UNCHANGED <<err, ret>>
    /\ UNCHANGED <<driver, use_local_volumes, volumes, export_devices,
                   iscsi_targets, lvs, lv_size, op, volume_ref, tries,
                   backoff, attempts, vol, slot, host_volumes, ensured>>

\* ensure_export, driver.py:227-234: the two commands, each run through
\* self._sync_exec(cmd, check_exit_code=False)
sync_exec_unchecked ==
    /\ pc[Startup] \in {"ietadm_new_target", "ietadm_new_lun"}
    /\ \E rc \in {0, 1} :
         /\ log' = [log EXCEPT ![Startup] = @ \o << <<pc[Startup], rc>> >>]
         /\ IF pc[Startup] = "ietadm_new_target"
            THEN /\ pc' = [pc EXCEPT ![Startup] = "ietadm_new_lun"]
                 /\ UNCHANGED loop
            ELSE next_volume(loop[Startup], host_volumes)
         /\ UNCHANGED <<err, ret>>
    /\ UNCHANGED <<driver, use_local_volumes, volumes, export_devices,
                   iscsi_targets, lvs, lv_size, op, volume_ref, tries,
                   backoff, attempts, vol, slot, host_volumes, ensured>>

\* ----------------------------------------------------- external commands
\* what a command that exits with 0 changes on self_host
Effect(cmd, v, present) ==
    CASE cmd = "lvcreate" -> present \cup {v}
      [] cmd = "lvremove" -> present \ {v}
      [] OTHER -> present

\* the sizes of the logical volumes after a command that exits with 0;
\* lvcreate is given sizestr, driver.py:92-99
Sized(cmd, v, size, sizes) ==
    CASE cmd = "lvcreate" -> [sizes EXCEPT ![v] = sizestr(size)]
      [] cmd = "lvremove" -> [sizes EXCEPT ![v] = NoSize]
      [] OTHER -> sizes

\* IsStep as it would be if the sleep of _try_execute held the whole
\* process: no command of a request runs while another request sleeps
IsStep_sleep_blocks(t, how) ==
    /\ pc[t] \notin {"idle", "done", "failed"}
    /\ How(op[t], driver, pc[t]) = how
    /\ \A u \in Tasks \ {t} : ~backoff[u]

IsStep(t, how) ==
    /\ pc[t] \notin {"idle", "done", "failed"}
    /\ How(op[t], driver, pc[t]) = how

\* gives_up as it would be with > in place of >=
gives_up_late(n) == n > num_shell_tries

\* _try_execute, driver.py:77
gives_up(n) == n >= num_shell_tries

\* backoff_seconds as it would be with a linear backoff
backoff_linear(n) == n

\* _try_execute, driver.py:81: the seconds slept after the n-th failure
backoff_seconds(n) == n * n

\* _try_execute, driver.py:71-80: one pass of the loop up to the sleep
try_execute(t) ==
    /\ IsStep(t, "try")
    /\ ~backoff[t]
    /\ \E rc \in {0, 1} :
         LET made == (IF tries[t] = 0 THEN << >> ELSE attempts[t])
                       \o << <<"exec", rc>> >>
         IN  /\ attempts' = [attempts EXCEPT ![t] = made]
             /\ IF rc = 0
                THEN /\ lvs' = Effect(pc[t], vol[t], lvs)
                     /\ lv_size' = Sized(pc[t], vol[t], volume_ref[t].size,
                                         lv_size)
                     /\ log' = [log EXCEPT ![t] = @ \o << <<pc[t], 0>> >>]
                     /\ tries' = [tries EXCEPT ![t] = 0]
                     /\ Advance(t)
                     /\ UNCHANGED backoff
                ELSE /\ tries' = [tries EXCEPT ![t] = tries[t] + 1]
                     /\ UNCHANGED <<lvs, lv_size>>
                     /\ IF gives_up(tries[t] + 1)
                        THEN /\ Raise(t, "ProcessExecutionError")
                             /\ log' = [log EXCEPT ![t] = @ \o << <<pc[t], 1>> >>]
                             /\ UNCHANGED backoff
                        ELSE /\ backoff' = [backoff EXCEPT ![t] = TRUE]
                             /\ UNCHANGED <<pc, err, ret, log>>
    /\ UNCHANGED <<driver, use_local_volumes, host_volumes, ensured,
                   volumes, export_devices,
                   iscsi_targets, op, vol, volume_ref, slot, loop>>

\* _try_execute, driver.py:81: the sleep before the next attempt; the
\* command "sleep n" is taken to exit with 0
try_execute_sleep(t) ==
    /\ IsStep(t, "try")
    /\ backoff[t]
    /\ attempts' = [attempts EXCEPT
                      ![t] = @ \o << <<"sleep", backoff_seconds(tries[t])>> >>]
    /\ backoff' = [backoff EXCEPT ![t] = FALSE]
    /\ UNCHANGED <<driver, use_local_volumes, host_volumes, ensured,
                   lv_size, volumes, export_devices,
                   iscsi_targets, lvs, op, vol, pc, volume_ref, slot, loop,
                   tries, log, err, ret>>

\* execute as it would be if a failing command gave the target id back
execute_with_rollback(t) ==
    /\ IsStep(t, "exec")
    /\ \E rc \in {0, 1} :
         /\ log' = [log EXCEPT ![t] = @ \o << <<pc[t], rc>> >>]
         /\ IF rc = 0
            THEN Advance(t) /\ UNCHANGED iscsi_targets
            ELSE /\ Raise(t, "ProcessExecutionError")
                 /\ iscsi_targets' = released(iscsi_targets, vol[t])
    /\ Forget(t)
    /\ UNCHANGED <<driver, use_local_volumes, host_volumes, ensured,
                   lv_size, volumes, export_devices,
                   lvs, op, vol, volume_ref, slot, loop,
                   tries, backoff>>

\* self._execute(cmd): a failing exit code raises ProcessExecutionError
execute(t) ==
    /\ IsStep(t, "exec")
    /\ \E rc \in {0, 1} :
         /\ log' = [log EXCEPT ![t] = @ \o << <<pc[t], rc>> >>]
         /\ IF rc = 0 THEN Advance(t) ELSE Raise(t, "ProcessExecutionError")
    /\ Forget(t)
    /\ UNCHANGED <<driver, use_local_volumes, host_volumes, ensured,
                   lv_size, volumes, export_devices,
                   iscsi_targets, lvs, op, vol, volume_ref, slot, loop,
                   tries, backoff>>

\* self._execute(cmd, check_exit_code=False): the exit code is ignored
execute_unchecked(t) ==
    /\ IsStep(t, "nocheck")
    /\ \E rc \in {0, 1} :
         /\ log' = [log EXCEPT ![t] = @ \o << <<pc[t], rc>> >>]
         /\ Advance(t)
    /\ Forget(t)
    /\ UNCHANGED <<driver, use_local_volumes, host_volumes, ensured,
                   lv_size, volumes, export_devices,
                   iscsi_targets, lvs, op, vol, volume_ref, slot, loop,
                   tries, backoff>>

\* self._execute("sleep 2"), driver.py:176
execute_sleep(t) ==
    /\ IsStep(t, "sleep")
    /\ log' = [log EXCEPT ![t] = @ \o << <<pc[t], 0>> >>]
    /\ Advance(t)
    /\ Forget(t)
    /\ UNCHANGED <<driver, use_local_volumes, host_volumes, ensured,
                   lv_size, volumes, export_devices,
                   iscsi_targets, lvs, op, vol, volume_ref, slot, loop,
                   tries, backoff>>

\* _get_name_and_portal, driver.py:273-280: the discovery command, then the
\* scan of its output; without a matching line `location` is unbound
ISCSI_get_name_and_portal(t) ==
    /\ IsStep(t, "discovery")
    /\ \E rc \in {0, 1}, matched \in BOOLEAN :
         /\ log' = [log EXCEPT ![t] = @ \o << <<pc[t], rc>> >>]
         /\ IF rc = 1 THEN matched /\ Raise(t, "ProcessExecutionError")
            ELSE IF matched THEN Advance(t)
            ELSE Raise(t, "UnboundLocalError")
    /\ Forget(t)
    /\ UNCHANGED <<driver, use_local_volumes, host_volumes, ensured,
                   lv_size, volumes, export_devices,
                   iscsi_targets, lvs, op, vol, volume_ref, slot, loop,
                   tries, backoff>>

\* ------------------------------------------------------------------ system
Next ==
    \/ check_for_setup_error
    \/ init_host_load
    \/ AOE_ensure_export
    \/ ISCSI_ensure_export
    \/ sync_exec_unchecked
    \/ init_host_return
    \/ \E t \in Tasks :
       \/ \E o \in Ops, v \in Vols : Call(t, o, v)
       \/ create_volume_begin(t)
       \/ create_volume_set_host(t)
       \/ create_volume_finish(t)
       \/ delete_volume_begin(t)
       \/ delete_volume_finish(t)
       \/ setup_compute_volume_begin(t)
       \/ remove_compute_volume_begin(t)
       \/ AOE_ensure_blades_check(t)
       \/ AOE_ensure_blades_create(t)
       \/ AOE_allocate(t)
       \/ AOE_lookup(t)
       \/ ISCSI_ensure_target_ids_check(t)
       \/ ISCSI_ensure_target_ids_create(t)
       \/ ISCSI_allocate(t)
       \/ ISCSI_lookup(t)
       \/ try_execute(t)
       \/ try_execute_sleep(t)
       \/ execute(t)
       \/ execute_unchecked(t)
       \/ execute_sleep(t)
       \/ ISCSI_get_name_and_portal(t)

Spec == Init /\ [][Next]_vars

\* a step of request t: the reactor resumes the coroutine when the
\* datastore call or the command it waits for has returned
Step(t) ==
    \/ create_volume_begin(t)
    \/ create_volume_set_host(t)
    \/ create_volume_finish(t)
    \/ delete_volume_begin(t)
    \/ delete_volume_finish(t)
    \/ setup_compute_volume_begin(t)
    \/ remove_compute_volume_begin(t)
    \/ AOE_ensure_blades_check(t)
    \/ AOE_ensure_blades_create(t)
    \/ AOE_allocate(t)
    \/ AOE_lookup(t)
    \/ ISCSI_ensure_target_ids_check(t)
    \/ ISCSI_ensure_target_ids_create(t)
    \/ ISCSI_allocate(t)
    \/ ISCSI_lookup(t)
    \/ try_execute(t)
    \/ try_execute_sleep(t)
    \/ execute(t)
    \/ execute_unchecked(t)
    \/ execute_sleep(t)
    \/ ISCSI_get_name_and_portal(t)

\* The commands of the second request return and the reactor resumes it;
\* nothing is assumed about init_host or about the first request, whose
\* commands may take for ever.
FairSpec == Spec /\ WF_vars(Step(Arrival[2]))

\* ---------------------------------------- VolumeDriver.create_volume alone
\* the largest volume['size'] considered
MaxSize == 12

\* the service starts with a first volume of any size up to MaxSize
CreateVolumeInit ==
    \E size \in 0 .. MaxSize :
       Start([InitialSizes EXCEPT ![VolSeq[1]] = size])

\* init_host, then create_volume requests up to the end of
\* driver.create_volume
CreateVolumeNext ==
    \/ check_for_setup_error
    \/ init_host_load
    \/ AOE_ensure_export
    \/ ISCSI_ensure_export
    \/ sync_exec_unchecked
    \/ init_host_return
    \/ \E t \in Tasks :
       \/ \E v \in Vols : Call(t, "create_volume", v)
       \/ create_volume_begin(t)
       \/ create_volume_set_host(t)
       \/ pc[t] = "lvcreate" /\ try_execute(t)
       \/ pc[t] = "lvcreate" /\ try_execute_sleep(t)

CreateVolumeSpec == CreateVolumeInit /\ [][CreateVolumeNext]_vars

\* ------------------------------------------------------------------ claims
Creating(t) == op[t] = "create_volume"

\* C1: two create_export calls for distinct volumes never obtain the same
\* identifier, and in every reachable state no shelf/blade pair and no
\* (host, target_id) is owned by more than one volume.
C1_DistinctAllocation ==
    /\ \A t1, t2 \in Tasks :
         (/\ t1 # t2
          /\ Creating(t1) /\ Creating(t2)
          /\ vol[t1] # vol[t2]
          /\ slot[t1] # << >> /\ slot[t2] # << >>)
         => slot[t1] # slot[t2]
    /\ \A id \in Blades : Cardinality(OwnersOf(export_devices, id)) <= 1
    /\ \A id \in Targets : Cardinality(OwnersOf(iscsi_targets, id)) <= 1

\* C1 witness: two requests that ran side by side create distinct volumes
\* and each holds an identifier of the same pool.
C1_Witness ==
    /\ Creating("r1") /\ Creating("r2")
    /\ vol["r1"] # vol["r2"]
    /\ slot["r1"] # << >> /\ slot["r2"] # << >>
    /\ pc["r1"] \notin {"done", "failed"}
    /\ pc["r2"] \notin {"done", "failed"}

\* the steps of the pool population
PopulationSteps ==
    {"export_device_count", "export_device_create_safe",
     "target_id_count_by_host", "target_id_create_safe"}

\* request t has run the population step of create_export to its end
Populated(t) ==
    /\ Creating(t)
    /\ \/ pc[t] \in {"volume_allocate_shelf_and_blade", "vblade_setup",
                     "sleep_2", "vblade_auto", "vblade_start",
                     "volume_allocate_target_id", "ietadm_new_target",
                     "ietadm_new_lun", "volume_update_status", "done"}
       \/ slot[t] # << >>
       \/ err[t] \in {"NoMoreBlades", "NoMoreTargets"}

\* C2: whenever a caller has run the pool population to its end, alone,
\* after another caller or interleaved with one, its scope holds exactly
\* one row per identifier; no identifier ever has two rows; and no step of
\* the population raises an error.
C2_PopulationExact ==
    /\ [](\A t \in Tasks :
            Populated(t) =>
              IF driver = "AOE"
              THEN \A id \in Blades : Len(export_devices[id]) = 1
              ELSE \A id \in {volume_ref[t].host} \X TargetIds :
                      Len(iscsi_targets[id]) = 1)
    /\ [](/\ \A id \in Blades : Len(export_devices[id]) <= 1
          /\ \A id \in Targets : Len(iscsi_targets[id]) <= 1
          /\ export_device_count(export_devices)
                <= num_shelves * blades_per_shelf
          /\ \A h \in Hosts :
                target_id_count_by_host(iscsi_targets, h) <= iscsi_target_ids)
    /\ [][\A t \in Tasks :
            pc[t] \in PopulationSteps => pc'[t] # "failed"]_vars

\* C2 witness: one caller has finished its population pass while another
\* is still inside the loop, about to insert an identifier whose row is
\* already there.
C2_Witness ==
    /\ Populated("r1")
    /\ pc["r1"] \in {"volume_allocate_shelf_and_blade",
                     "volume_allocate_target_id"}
    /\ Creating("r2")
    /\ pc["r2"] \in {"export_device_create_safe", "target_id_create_safe"}
    /\ loop["r2"] = 2
    /\ \/ driver = "AOE" /\ Len(export_devices[BladeSeq[2]]) = 1
       \/ driver = "ISCSI" /\ Len(iscsi_targets[<<self_host, 2>>]) = 1

\* the executions of the command among the entries of a _try_execute call
Execs(a) == {i \in 1 .. Len(a) : a[i][1] = "exec"}
Sleeps(a) == {i \in 1 .. Len(a) : a[i][1] = "sleep"}

\* the last finished driver command of request t
LastLog(t) == log[t][Len(log[t])]

\* fail, sleep 1, fail, sleep 4, success
FailFailSucceed ==
    << <<"exec", 1>>, <<"sleep", 1>>, <<"exec", 1>>, <<"sleep", 4>>,
       <<"exec", 0>> >>

\* C3: in every call of _try_execute the executions and the sleeps
\* alternate, the sleep after the i-th failed execution lasts i*i seconds,
\* nothing follows the first successful execution, and a call whose last
\* execution succeeded has returned to its caller without an exception; so
\* with 3 tries, fail, fail, success gives the sleeps 1 and 4 and success.
C3_QuadraticBackoff ==
    \A t \in Tasks :
       LET a == attempts[t]
       IN  /\ \A i \in 1 .. Len(a) :
                IF i % 2 = 1
                THEN /\ a[i][1] = "exec"
                     /\ (i < Len(a) => a[i][2] = 1)
                ELSE a[i] = <<"sleep", (i \div 2) * (i \div 2)>>
           /\ (a # << >> /\ a[Len(a)] = <<"exec", 0>>) =>
                /\ err[t] = None
                /\ pc[t] # "failed"
                /\ log[t] # << >>
                /\ LastLog(t)[2] = 0
                /\ How(op[t], driver, LastLog(t)[1]) = "try"
           /\ (backoff[t] => a # << >> /\ a[Len(a)] = <<"exec", 1>>)

\* C3 witness: a command failed twice and succeeded at the third execution.
C3_Witness ==
    \E t \in Tasks : attempts[t] = FailFailSucceed /\ pc[t] # "failed"

\* C4: a _try_execute call never executes its command more than
\* num_shell_tries times; once the command has failed num_shell_tries times
\* the request has ended with the ProcessExecutionError of that command,
\* and the last entry of the call is that failed execution, not a sleep;
\* a call that has failed fewer times has not raised.
C4_BoundedRetries ==
    \A t \in Tasks :
       LET a == attempts[t]
           failed == {i \in Execs(a) : a[i][2] = 1}
       IN  /\ Cardinality(Execs(a)) <= num_shell_tries
           /\ Cardinality(failed) = num_shell_tries =>
                /\ pc[t] = "failed"
                /\ err[t] = "ProcessExecutionError"
                /\ a[Len(a)] = <<"exec", 1>>
                /\ Cardinality(Sleeps(a)) = num_shell_tries - 1
                /\ LastLog(t)[2] = 1
                /\ How(op[t], driver, LastLog(t)[1]) = "try"
           /\ (a # << >> /\ Cardinality(failed) < num_shell_tries) =>
                pc[t] # "failed"

\* C4 witness: a command has failed at each of its 3 executions.
C4_Witness ==
    \E t \in Tasks :
       /\ attempts[t] = << <<"exec", 1>>, <<"sleep", 1>>, <<"exec", 1>>,
                           <<"sleep", 4>>, <<"exec", 1>> >>
       /\ pc[t] = "failed"

\* the two exception.Error of delete_volume, manager.py:102 and 104
ValidationErrors ==
    {"Volume is still attached", "Volume is not local to this node"}

\* C5: the step of delete_volume that reads a record which is attached, or
\* whose host is not this host, ends the request with a validation error
\* and changes neither the datastore nor the logical volumes; a request
\* that ended so has issued no command and looked up no slot.
C5_DeleteRejectedFirst ==
    /\ [][\A t \in Tasks :
            (/\ Running(t, "delete_volume", "volume_get")
             /\ pc'[t] # pc[t]
             /\ ~volumes[vol[t]].deleted
             /\ \/ volumes[vol[t]].attach_status = "attached"
                \/ volumes[vol[t]].host # self_host)
            => /\ pc'[t] = "failed"
               /\ err'[t] \in ValidationErrors
               /\ volumes' = volumes
               /\ export_devices' = export_devices
               /\ iscsi_targets' = iscsi_targets
               /\ lvs' = lvs]_vars
    /\ [](\A t \in Tasks :
            err[t] \in ValidationErrors =>
              /\ op[t] = "delete_volume"
              /\ pc[t] = "failed"
              /\ log[t] = << >>
              /\ attempts[t] = << >>
              /\ slot[t] = << >>
              /\ \/ volume_ref[t].attach_status = "attached"
                 \/ volume_ref[t].host # self_host)

\* C5 witness: one delete_volume was rejected because the volume is
\* attached, another because the volume is not local.
C5_Witness ==
    /\ err["r1"] = "Volume is still attached"
    /\ volumes[vol["r1"]].attach_status = "attached"
    /\ vol["r1"] \in lvs
    /\ OwnedBy(export_devices, vol["r1"]) \cup OwnedBy(iscsi_targets, vol["r1"])
         # {}
    /\ err["r2"] = "Volume is not local to this node"

\* the commands of a create_volume in which every step succeeded
CreateCommands ==
    IF driver = "AOE"
    THEN <<"lvcreate", "vblade_setup", "sleep_2", "vblade_auto",
           "vblade_start">>
    ELSE <<"lvcreate", "ietadm_new_target", "ietadm_new_lun">>

IsPrefix(a, b) ==
    /\ Len(a) <= Len(b)
    /\ \A i \in 1 .. Len(a) : a[i] = b[i]

\* the pool table of the driver in use
Pool == IF driver = "AOE" THEN export_devices ELSE iscsi_targets

\* every command of request t so far exited with 0, the two activate
\* commands of AoE apart, whose exit code is ignored
AllSucceeded(t) ==
    \A i \in 1 .. Len(log[t]) :
       log[t][i][2] = 0 \/ log[t][i][1] \in {"vblade_auto", "vblade_start"}

\* request t of create_volume has run the backing-volume creation and the
\* export creation to their end
CreatedAndExported(t) ==
    /\ Names(log[t]) = CreateCommands
    /\ AllSucceeded(t)
    /\ slot[t] # << >>
    /\ slot[t] \in OwnedBy(Pool, vol[t])

\* C6: in create_volume the host is persisted before the first command is
\* issued, the backing volume is created before a slot is allocated, the
\* slot is allocated before the export is published, and the status is
\* written, to "available" and with launched_at, only by the last step of
\* a create_volume whose backing-volume and export creation have both
\* succeeded; a create_volume that has returned leaves the volume available,
\* on this host and with the slot it allocated.
C6_CreateOrder ==
    /\ [](\A t \in Tasks :
            Creating(t) =>
              /\ IsPrefix(Names(log[t]), CreateCommands)
              /\ (pc[t] = "lvcreate" \/ attempts[t] # << >> \/ log[t] # << >>)
                   => /\ volumes[vol[t]].host = self_host
                      /\ volume_ref[t].host = self_host
              /\ (slot[t] # << >> \/ pc[t] \in PopulationSteps)
                   => /\ log[t] # << >>
                      /\ log[t][1] = <<"lvcreate", 0>>
              /\ Len(log[t]) >= 2 => slot[t] \in OwnedBy(Pool, vol[t])
              /\ pc[t] = "volume_update_status" => CreatedAndExported(t)
              /\ pc[t] = "done" =>
                   /\ CreatedAndExported(t)
                   /\ volumes[vol[t]].status = "available"
                   /\ volumes[vol[t]].launched_at = "now"
                   /\ volumes[vol[t]].host = self_host
                   /\ ret[t] = <<vol[t]>>
              /\ pc[t] = "failed" =>
                   /\ err[t] \in {"ProcessExecutionError", "NoMoreBlades",
                                  "NoMoreTargets", "NotFound"}
                   /\ err[t] = "ProcessExecutionError" => ~AllSucceeded(t))
    /\ [][\A v \in Vols :
            (\/ volumes'[v].status # volumes[v].status
             \/ volumes'[v].launched_at # volumes[v].launched_at)
            => /\ volumes'[v].status = "available"
               /\ volumes'[v].launched_at = "now"
               /\ \E t \in Tasks :
                    /\ Creating(t) /\ vol[t] = v
                    /\ pc[t] = "volume_update_status" /\ pc'[t] = "done"
                    /\ CreatedAndExported(t)]_vars

\* C6 witness: a create_volume of a new volume has returned.
C6_Witness ==
    \E t \in Tasks :
       /\ Creating(t) /\ pc[t] = "done"
       /\ CreatedAndExported(t)
       /\ volumes[vol[t]].status = "available"
       /\ volumes[vol[t]].launched_at = "now"
       /\ volumes[vol[t]].host = self_host
       /\ vol[t] \in lvs

Deleting(t) == op[t] = "delete_volume"

\* the commands of remove_export, and of a delete_volume in which every
\* step succeeded
RemoveExportCommands ==
    IF driver = "AOE" THEN <<"vblade_stop", "vblade_destroy">>
    ELSE <<"ietadm_delete_lun", "ietadm_delete_target">>
DeleteCommands == RemoveExportCommands \o <<"lvremove">>

\* C7: a record is destroyed only by the last step of a delete_volume for
\* it whose remove_export and then backing-volume deletion have both
\* succeeded; the backing volume is deleted only after both commands of
\* remove_export have succeeded; so a delete_volume that failed in
\* remove_export has not touched the backing volume, and one that failed
\* before its last step has not destroyed the record.
C7_DestroyLast ==
    /\ [](\A t \in Tasks :
            Deleting(t) =>
              /\ IsPrefix(Names(log[t]), DeleteCommands)
              /\ (pc[t] = "lvremove" \/ Len(log[t]) = 3)
                   => /\ Len(log[t]) >= 2
                      /\ log[t][1][2] = 0 /\ log[t][2][2] = 0
              /\ pc[t] \in {"volume_destroy", "done"}
                   => Names(log[t]) = DeleteCommands /\ AllSucceeded(t)
              /\ pc[t] = "done"
                   => volumes[vol[t]].deleted /\ ret[t] = <<"True">>
              /\ (pc[t] = "failed" /\ err[t] = "ProcessExecutionError")
                   => ~AllSucceeded(t))
    /\ [][\A v \in Vols :
            (volumes'[v].deleted # volumes[v].deleted)
            => \E t \in Tasks :
                 /\ Deleting(t) /\ vol[t] = v
                 /\ pc[t] = "volume_destroy" /\ pc'[t] = "done"
                 /\ Names(log[t]) = DeleteCommands /\ AllSucceeded(t)]_vars
    /\ [][\A v \in Vols :
            (v \in lvs /\ v \notin lvs')
            => \E t \in Tasks :
                 /\ Deleting(t) /\ vol[t] = v
                 /\ pc[t] = "lvremove"
                 /\ Names(log[t]) = RemoveExportCommands
                 /\ AllSucceeded(t)]_vars

\* C7 witness: a delete_volume has returned; the export commands, then the
\* removal of the backing volume ran, and the record is destroyed.
C7_Witness ==
    \E t \in Tasks :
       /\ Deleting(t) /\ pc[t] = "done"
       /\ Names(log[t]) = DeleteCommands
       /\ volumes[vol[t]].deleted
       /\ vol[t] \notin lvs

\* C8: in every reachable state each volume owns at most one shelf/blade
\* pair and at most one target id.
C8_OneSlotPerVolume ==
    \A v \in Vols :
       /\ Cardinality(OwnedBy(export_devices, v)) <= 1
       /\ Cardinality(OwnedBy(iscsi_targets, v)) <= 1

\* the stage of a volume record in its lifecycle
Stage(rec) ==
    IF rec.deleted THEN 3
    ELSE CASE rec.status = "creating" -> 0
           [] rec.status = "available" -> 1
           [] rec.status = "deleting" -> 2

\* C9: no step of a manager operation moves the status of a volume to an
\* earlier stage of creating, available, deleting, deleted.
C9_StatusForward ==
    [][\A v \in Vols : Stage(volumes'[v]) >= Stage(volumes[v])]_vars

\* the commands of discover_volume and of undiscover_volume
DiscoverCommands ==
    IF driver = "AOE" THEN <<"aoe_discover", "aoe_stat">>
    ELSE <<"iscsiadm_discovery", "iscsiadm_login",
           "iscsiadm_update_automatic">>
UndiscoverCommands ==
    IF driver = "AOE" THEN << >>
    ELSE <<"iscsiadm_discovery", "iscsiadm_update_manual",
           "iscsiadm_logout", "iscsiadm_delete">>

\* request t has read its volume record
HasRead(t) == pc[t] \notin {"idle", "volume_get"} /\ err[t] # "NotFound"

\* the record that request t read is on this host and the shortcut is on
Shortcut(t) == volume_ref[t].host = self_host /\ use_local_volumes

\* the steps of a command list
InCommands(t, cmds) == \E i \in 1 .. Len(cmds) : pc[t] = cmds[i]

\* C10: when the record read has host = self.host and use_local_volumes is
\* set, setup_compute_volume has returned /dev/<volume_group>/<name> and
\* remove_compute_volume has returned True, each without any command; in
\* every other case the request runs the commands of the driver's
\* discover_volume, or undiscover_volume, and returns what that returns.
C10_LocalShortcut ==
    \A t \in Tasks :
       /\ (op[t] = "setup_compute_volume" /\ HasRead(t)) =>
            IF Shortcut(t)
            THEN /\ pc[t] = "done"
                 /\ ret[t] = <<"/dev", "nova-volumes", vol[t]>>
                 /\ log[t] = << >>
            ELSE /\ IsPrefix(Names(log[t]), DiscoverCommands)
                 /\ pc[t] = "failed" => log[t] # << >>
                 /\ pc[t] = "done" =>
                      /\ Names(log[t]) = DiscoverCommands
                      /\ ret[t] = IF driver = "ISCSI"
                                  THEN <<"/dev", "iscsi", vol[t]>>
                                  ELSE <<"None">>
                 /\ pc[t] \notin {"done", "failed"} =>
                      InCommands(t, DiscoverCommands)
       /\ (op[t] = "remove_compute_volume" /\ HasRead(t)) =>
            IF Shortcut(t)
            THEN /\ pc[t] = "done"
                 /\ ret[t] = <<"True">>
                 /\ log[t] = << >>
            ELSE /\ IsPrefix(Names(log[t]), UndiscoverCommands)
                 /\ pc[t] = "failed" => log[t] # << >>
                 /\ pc[t] = "done" =>
                      /\ Names(log[t]) = UndiscoverCommands
                      /\ ret[t] = <<"None">>
                 /\ pc[t] \notin {"done", "failed"} =>
                      InCommands(t, UndiscoverCommands)

\* C10 witness: a setup_compute_volume and a remove_compute_volume of local
\* volumes have both taken the shortcut.
C10_Witness ==
    /\ op["r1"] = "setup_compute_volume" /\ pc["r1"] = "done"
    /\ Shortcut("r1")
    /\ ret["r1"] = local_path(vol["r1"]) /\ log["r1"] = << >>
    /\ op["r2"] = "remove_compute_volume" /\ pc["r2"] = "done"
    /\ Shortcut("r2")
    /\ ret["r2"] = <<"True">> /\ log["r2"] = << >>

\* C11: in the iSCSI driver, a discover_volume or undiscover_volume whose
\* discovery command exited with 0 but printed no line that holds both the
\* IP prefix and the volume's name ends with the explicit error
\* NotFoundError, having issued no command after the discovery.
C11_TargetNotFound ==
    \A t \in Tasks :
       (/\ driver = "ISCSI"
        /\ op[t] \in {"setup_compute_volume", "remove_compute_volume"}
        /\ pc[t] = "failed"
        /\ log[t] = << <<"iscsiadm_discovery", 0>> >>)
       => err[t] = "NotFoundError"

\* the records assigned to this host
LocalVolumes == {v \in Vols : volumes[v].host = self_host /\ ~volumes[v].deleted}

\* the elements of a sequence
Range(s) == {s[i] : i \in 1 .. Len(s)}

\* the number of times x occurs in sequence s
Count(s, x) == Cardinality({i \in 1 .. Len(s) : s[i] = x})

\* init_host is past its first statement and has not returned
Loading == pc[Startup] \in {"ensure_export", "ietadm_new_target",
                            "ietadm_new_lun", "return"}

\* C12: init_host checks the prerequisites before anything else; when the
\* check fails init_host has failed with no record loaded, no ensure_export
\* invoked and no command issued; when it passes, the records loaded are
\* those assigned to this host, ensure_export is invoked for them only, at
\* most once each, and for each exactly once when init_host returns.
C12_InitHost ==
    /\ pc[Startup] = "check_for_setup_error"
         => host_volumes = << >> /\ ensured = << >> /\ log[Startup] = << >>
    /\ err[Startup] = "volume group doesn't exist"
         => /\ pc[Startup] = "failed"
            /\ host_volumes = << >> /\ ensured = << >>
            /\ log[Startup] = << >>
            /\ \A t \in Tasks : pc[t] = "idle"
    /\ Loading => /\ Range(host_volumes) = LocalVolumes
                  /\ \A v \in Vols : Count(host_volumes, v) <= 1
    /\ IsPrefix(ensured, host_volumes)
    /\ \A v \in Vols : Count(ensured, v) <= 1
    /\ \A v \in Vols : v \notin Range(host_volumes) => Count(ensured, v) = 0
    /\ pc[Startup] \in {"return", "done"}
         => \A v \in Range(host_volumes) : Count(ensured, v) = 1

\* C12 witness: init_host is about to return; of a volume of this host and
\* a volume of the other host, ensure_export was invoked for the first only.
C12_Witness ==
    /\ pc[Startup] = "return"
    /\ volumes["vol-1"].host = self_host
    /\ volumes["vol-2"].host = other_host
    /\ ensured = <<"vol-1">>

\* C13: a setup_compute_volume that has returned has returned a device
\* path, /dev/... , whichever driver is in use.
C13_DiscoverReturnsPath ==
    \A t \in Tasks :
       (op[t] = "setup_compute_volume" /\ pc[t] = "done")
       => /\ ret[t] # <<"None">>
          /\ ret[t][1] = "/dev"

RECURSIVE Value(_)
\* the number that a sequence of decimal digits denotes
Value(d) ==
    IF d = << >> THEN 0
    ELSE 10 * Value(SubSeq(d, 1, Len(d) - 1)) + d[Len(d)]

\* C14: every logical volume was created with -L 100M when the size of its
\* record is 0, and with -L <size>G, the size written in decimal without a
\* leading zero, when the size is greater than 0.
C14_SizeArgument ==
    \A v \in Vols :
       lv_size[v] # NoSize =>
         /\ \A i \in 1 .. Len(lv_size[v].digits) :
               lv_size[v].digits[i] \in 0 .. 9
         /\ lv_size[v].digits[1] # 0
         /\ IF volumes[v].size = 0
            THEN lv_size[v].unit = "M" /\ Value(lv_size[v].digits) = 100
            ELSE /\ lv_size[v].unit = "G"
                 /\ Value(lv_size[v].digits) = volumes[v].size

\* C14 witness: one request has created a logical volume for a record of
\* size 0, with 100M, and another for a record of size 5, with 5G.
C14_Witness ==
    /\ log["r1"] = << <<"lvcreate", 0>> >>
    /\ volume_ref["r1"].size = 0
    /\ lv_size[vol["r1"]] = [digits |-> <<1, 0, 0>>, unit |-> "M"]
    /\ log["r2"] = << <<"lvcreate", 0>> >>
    /\ volume_ref["r2"].size = 5
    /\ lv_size[vol["r2"]] = [digits |-> <<5>>, unit |-> "G"]

\* no other request is about the volume of request t
Alone(t) == \A u \in Tasks \ {t} : vol[u] # vol[t]

\* C15: the step at which a create_volume fails changes neither the volume
\* records, nor the pools, nor the logical volumes; a failed request takes
\* no further step and keeps its error; so, no other request being about
\* the same volume, a create_volume that failed after its first command
\* leaves the host persisted, the backing volume it created in place, the
\* slot it allocated owned by the volume, and the status unwritten.
C15_NoCompensation ==
    /\ [][\A t \in Tasks :
            (Creating(t) /\ pc[t] # "failed" /\ pc'[t] = "failed")
            => /\ volumes' = volumes
               /\ export_devices' = export_devices
               /\ iscsi_targets' = iscsi_targets
               /\ lvs' = lvs
               /\ lv_size' = lv_size
               /\ err'[t] # None]_vars
    /\ [][\A t \in Tasks :
            pc[t] = "failed"
            => /\ pc'[t] = "failed"
               /\ err'[t] = err[t]
               /\ log'[t] = log[t]
               /\ slot'[t] = slot[t]]_vars
    /\ [](\A t \in Tasks :
            (Creating(t) /\ pc[t] = "failed" /\ Alone(t))
            => /\ log[t] # << >> => volumes[vol[t]].host = self_host
               /\ (log[t] # << >> /\ log[t][1] = <<"lvcreate", 0>>)
                    => vol[t] \in lvs
               /\ slot[t] # << >> => slot[t] \in OwnedBy(Pool, vol[t])
               /\ volumes[vol[t]].launched_at # "now"
               /\ ret[t] = << >>)

\* C15 witness: an iSCSI create_volume has failed at the second command of
\* the export, after lvcreate and the allocation of a target id.
C15_Witness ==
    \E t \in Tasks :
       /\ Creating(t) /\ pc[t] = "failed"
       /\ err[t] = "ProcessExecutionError"
       /\ log[t] = << <<"lvcreate", 0>>, <<"ietadm_new_target", 0>>,
                      <<"ietadm_new_lun", 1>> >>
       /\ volumes[vol[t]].host = self_host
       /\ volumes[vol[t]].status = "creating"
       /\ vol[t] \in lvs
       /\ slot[t] \in OwnedBy(iscsi_targets, vol[t])

\* the identifiers of scope that no volume owns
Free(table, scope) == {id \in scope : OwnersOf(table, id) = {}}

\* C16: no step takes an identifier away from a volume that owns it, be the
\* record of the volume destroyed or not; so in no pool, and for no host,
\* does the number of identifiers without an owner ever grow.
C16_NoRelease ==
    [][/\ \A v \in Vols :
             /\ OwnedBy(export_devices, v) \subseteq OwnedBy(export_devices', v)
             /\ OwnedBy(iscsi_targets, v) \subseteq OwnedBy(iscsi_targets', v)
       /\ Cardinality(Free(export_devices', Blades))
             <= Cardinality(Free(export_devices, Blades))
       /\ \A h \in Hosts :
             Cardinality(Free(iscsi_targets', {h} \X TargetIds))
               <= Cardinality(Free(iscsi_targets, {h} \X TargetIds))]_vars

\* C16 witness: a delete_volume has returned, the record is destroyed, and
\* the volume still owns the slot that remove_export looked up.
C16_Witness ==
    \E t \in Tasks :
       /\ Deleting(t) /\ pc[t] = "done"
       /\ volumes[vol[t]].deleted
       /\ slot[t] \in OwnedBy(Pool, vol[t])

\* every identifier of scope has a row
Complete(table, scope) == \A id \in scope : Len(table[id]) >= 1

\* the allocation steps of create_export
AllocationSteps ==
    {"volume_allocate_shelf_and_blade", "volume_allocate_target_id"}

\* the identifiers create_export of request t allocates from
Scope(t) ==
    IF driver = "AOE" THEN Blades ELSE {volume_ref[t].host} \X TargetIds

\* C17: whenever a create_export is at its allocation, every identifier of
\* the scope it allocates from has a row; the allocation fails only when
\* none of these rows is unassigned, and otherwise hands out an identifier
\* of the scope whose row was unassigned; every identifier a create_export
\* holds lies in its scope.
C17_CompleteBeforeAllocate ==
    /\ [](\A t \in Tasks :
            /\ pc[t] \in AllocationSteps => Complete(Pool, Scope(t))
            /\ (Creating(t) /\ slot[t] # << >>) => slot[t] \in Scope(t))
    /\ [][\A t \in Tasks :
            (pc[t] \in AllocationSteps /\ pc'[t] # pc[t])
            => IF Unassigned(Pool, Scope(t)) = {}
               THEN pc'[t] = "failed" /\ slot'[t] = << >>
               ELSE /\ pc'[t] # "failed"
                    /\ slot'[t] \in Unassigned(Pool, Scope(t))
                    /\ slot'[t] \in OwnedBy(Pool', vol[t])]_vars

\* C17 witness: the first create_export on a host whose pool nobody has
\* allocated from is at its allocation, and every row is there, unassigned.
C17_Witness ==
    /\ Creating("r1") /\ pc["r1"] \in AllocationSteps
    /\ pc["r2"] = "idle"
    /\ \A id \in Scope("r1") : Pool[id] = <<None>>

\* the two commands of the iSCSI ensure_export
EnsureExportCommands == <<"ietadm_new_target", "ietadm_new_lun">>

\* C18: with the iSCSI driver, ensure_export never ends init_host with the
\* failure of a command: for every volume it is invoked for, it looks up
\* the target id the volume owns and issues the target-create and then the
\* LUN-create command, whatever their exit codes, so that init_host leaves
\* its loop with two commands issued per volume of this host; and no step
\* of init_host changes a volume record, a pool row or a logical volume.
C18_EnsureExportTolerant ==
    /\ [](driver = "ISCSI" =>
            /\ err[Startup] # "ProcessExecutionError"
            /\ pc[Startup] = "failed" =>
                 err[Startup] = "volume group doesn't exist"
            /\ \A i \in 1 .. Len(log[Startup]) :
                 log[Startup][i][1] = EnsureExportCommands[2 - (i % 2)]
            /\ pc[Startup] = "ietadm_new_target" =>
                 Len(log[Startup]) = 2 * (Len(ensured) - 1)
            /\ pc[Startup] = "ietadm_new_lun" =>
                 Len(log[Startup]) = 2 * Len(ensured) - 1
            /\ pc[Startup] = "ensure_export" =>
                 Len(log[Startup]) = 2 * Len(ensured)
            /\ pc[Startup] = "return" =>
                 /\ ensured = host_volumes
                 /\ Len(log[Startup]) = 2 * Len(host_volumes)
            /\ pc[Startup] \in Range(EnsureExportCommands) =>
                 slot[Startup] \in OwnedBy(iscsi_targets, vol[Startup]))
    /\ [][pc[Startup] \notin {"done", "failed"}
           => /\ volumes' = volumes
              /\ iscsi_targets' = iscsi_targets
              /\ export_devices' = export_devices
              /\ lvs' = lvs
              /\ lv_size' = lv_size]_vars

\* C18 witness: both commands failed for the first volume of this host, and
\* ensure_export has run both commands for the second volume all the same.
C18_Witness ==
    /\ driver = "ISCSI"
    /\ pc[Startup] = "return"
    /\ ensured = <<"vol-1", "vol-2">>
    /\ log[Startup] = << <<"ietadm_new_target", 1>>, <<"ietadm_new_lun", 1>>,
                         <<"ietadm_new_target", 0>>, <<"ietadm_new_lun", 0>> >>

\* the commands of the AoE create_export
AOEExportCommands == <<"vblade_setup", "sleep_2", "vblade_auto", "vblade_start">>

\* the commands request t of create_volume has run after lvcreate
ExportLog(t) == IF log[t] = << >> THEN << >> ELSE Tail(log[t])

\* C19: with the AoE driver, the commands of create_export are the setup
\* command, the sleep, "auto all" and "start all", in this order, and the
\* first is run only once the pool is populated and a pair is allocated to
\* the volume; a setup command that failed at each of its tries has ended
\* the request with its error and nothing was issued after it; once the
\* setup command has succeeded, no exit code of a later command makes the
\* request fail, and create_export returns after "start all".
C19_AOECreateExport ==
    \A t \in Tasks :
       (driver = "AOE" /\ Creating(t)) =>
         LET cmds == ExportLog(t)
         IN  /\ IsPrefix(Names(cmds), AOEExportCommands)
             /\ (pc[t] = "vblade_setup" \/ cmds # << >>) =>
                  /\ Complete(export_devices, Blades)
                  /\ slot[t] \in OwnedBy(export_devices, vol[t])
             /\ (cmds # << >> /\ cmds[1][2] # 0) =>
                  /\ Len(cmds) = 1
                  /\ pc[t] = "failed"
                  /\ err[t] = "ProcessExecutionError"
                  /\ Cardinality(Execs(attempts[t])) = num_shell_tries
             /\ (cmds # << >> /\ cmds[1][2] = 0) =>
                  /\ Len(cmds) >= 2 => cmds[2] = <<"sleep_2", 0>>
                  /\ Len(cmds) < 4 => InCommands(t, AOEExportCommands)
                  /\ Len(cmds) = 4 =>
                       pc[t] \in {"volume_update_status", "done", "failed"}
                  /\ pc[t] = "failed" =>
                       Len(cmds) = 4 /\ err[t] = "NotFound"

\* C19 witness: the setup command has succeeded, both activate commands
\* have failed, and create_export has returned to create_volume.
C19_Witness ==
    \E t \in Tasks :
       /\ driver = "AOE" /\ Creating(t)
       /\ pc[t] = "volume_update_status"
       /\ log[t] = << <<"lvcreate", 0>>, <<"vblade_setup", 0>>,
                      <<"sleep_2", 0>>, <<"vblade_auto", 1>>,
                      <<"vblade_start", 1>> >>

\* request t has been called and has neither returned nor raised
InFlight(t) == pc[t] \notin {"idle", "done", "failed"}

\* the reasons other than a failed command for which a create_volume or a
\* delete_volume ends with an error
Refusals == ValidationErrors \cup {"NoMoreBlades", "NoMoreTargets", "NotFound"}

\* C20: a request in flight can always take its next step, whatever the
\* other request is doing, be it waiting for a command or in the backoff
\* sleep of _try_execute; and with the steps of the second request taken
\* fairly, the second request ends even if the first never moves again: a
\* create_volume or delete_volume whose commands all succeed returns,
\* unless the datastore refused it (validation, empty pool, no record).
C20_NoBlocking ==
    /\ [](\A t \in Tasks : InFlight(t) => ENABLED Step(t))
    /\ (InFlight("r2") ~> pc["r2"] \in {"done", "failed"})
    /\ [](\A t \in Tasks :
            (op[t] \in {"create_volume", "delete_volume"} /\ pc[t] = "failed")
            => \/ err[t] = "ProcessExecutionError" /\ ~AllSucceeded(t)
               \/ err[t] \in Refusals)

\* C20 witness: the second request, a create_volume, has returned while the
\* first, a create_volume of another volume called before it, is still in
\* the backoff sleep of its first command.
C20_Witness ==
    /\ Creating("r1") /\ backoff["r1"] /\ pc["r1"] = "lvcreate"
    /\ Creating("r2") /\ pc["r2"] = "done"
    /\ vol["r1"] # vol["r2"]

\* the commands of the iSCSI create_export, remove_export, discover_volume
\* and undiscover_volume
ISCSICommands ==
    {"ietadm_new_target", "ietadm_new_lun",
     "ietadm_delete_lun", "ietadm_delete_target",
     "iscsiadm_discovery", "iscsiadm_login", "iscsiadm_update_automatic",
     "iscsiadm_update_manual", "iscsiadm_logout", "iscsiadm_delete"}

\* C21: with the iSCSI driver, a request at a command of create_export,
\* remove_export, discover_volume or undiscover_volume is in no retry (no
\* try counted, no backoff); the step that runs the command runs it once,
\* leaves the command behind and changes no target id row; when the
\* command exits with a failure the request ends with that
\* ProcessExecutionError at this very step; no such command is ever run
\* twice by a request, nothing follows a failed one, and a create_volume
\* that failed so still owns the target id it had allocated.
C21_ISCSINoRetry ==
    /\ [](driver = "ISCSI" =>
            \A t \in Tasks :
               /\ pc[t] \in ISCSICommands =>
                    tries[t] = 0 /\ ~backoff[t] /\ attempts[t] = << >>
               /\ \A i \in 1 .. Len(log[t]) :
                    log[t][i][1] \in ISCSICommands =>
                      /\ Count(Names(log[t]), log[t][i][1]) = 1
                      /\ log[t][i][2] # 0 =>
                           /\ i = Len(log[t])
                           /\ pc[t] = "failed"
                           /\ err[t] = "ProcessExecutionError"
                           /\ attempts[t] = << >>
                           /\ Creating(t) =>
                                slot[t] \in OwnedBy(iscsi_targets, vol[t]))
    /\ [][driver = "ISCSI" =>
            \A t \in Tasks :
               (pc[t] \in ISCSICommands /\ log'[t] # log[t])
               => /\ pc'[t] # pc[t]
                  /\ log'[t] = Append(log[t], log'[t][Len(log'[t])])
                  /\ log'[t][Len(log'[t])][1] = pc[t]
                  /\ log'[t][Len(log'[t])][2] # 0 =>
                       /\ pc'[t] = "failed"
                       /\ err'[t] = "ProcessExecutionError"
                  /\ iscsi_targets' = iscsi_targets
                  /\ tries'[t] = 0 /\ ~backoff'[t]]_vars

\* C21 witness: an iSCSI create_volume has failed at the single execution
\* of the target-create command; the LUN-create command was not issued and
\* the volume owns the target id allocated before.
C21_Witness ==
    \E t \in Tasks :
       /\ driver = "ISCSI" /\ Creating(t)
       /\ pc[t] = "failed" /\ err[t] = "ProcessExecutionError"
       /\ log[t] = << <<"lvcreate", 0>>, <<"ietadm_new_target", 1>> >>
       /\ attempts[t] = << >>
       /\ slot[t] \in OwnedBy(iscsi_targets, vol[t])

====
